---- MODULE Spec2Model ----
(***************************************************************************)
(* main.cpp: a GLFW window, a GLAD-loaded OpenGL context, one shader       *)
(* program, two vertex array/buffer pairs and a render loop.               *)
(*                                                                         *)
(* main is a straight-line program with one loop.  Every statement of it   *)
(* is one action, named after the line it stands on (L50_... is the        *)
(* statement of line 50) and the function it calls; pc holds the line of   *)
(* the statement that runs next.  The OpenGL and GLFW state the calls act  *)
(* on is kept in the records gl and glfw; each library function is an      *)
(* operator from the record before the call to the record after it.        *)
(* What the driver and the user decide (whether the window is created,     *)
(* whether a stage compiles, which events a poll delivers) is chosen       *)
(* nondeterministically.                                                   *)
(***************************************************************************)
EXTENDS Integers, Sequences, FiniteSets

VARIABLES
    pc,         \* the line of main that runs next, or "done"
    ret,        \* <<>> while main runs, <<v>> once it has returned v
    success,    \* int success (line 81), "unset" before the first query
    out,        \* what was written to std::cout, one entry per statement
    err,        \* what was written to std::cerr
    glfw,       \* the GLFW library and its one window
    glad,       \* "unset", or what gladLoadGLLoader returned: "ok", "fail"
    gl,         \* the OpenGL context: objects, bindings, framebuffers
    lastCall,   \* the library call issued last: its name and handles
    iterCalls,  \* the library calls of the current loop iteration
    staleUse,   \* some call was handed a handle that was already deleted
    frames      \* loop iterations started, counted up to MaxFrames

vars == <<pc, ret, success, out, err, glfw, glad, gl, lastCall, iterCalls,
          staleUse, frames>>

----------------------------------------------------------------------------
\* Bounds of the model

\* iterations the counter frames tells apart
MaxFrames == 2
\* the framebuffer sizes a resize event can carry are (1..MaxDim) x (1..MaxDim)
MaxDim == 2

----------------------------------------------------------------------------
\* Constants of the program

SCR_WIDTH == 800
SCR_HEIGHT == 600
\* sizeof(float)
SizeofFloat == 4
\* the number of floats in vertices_1 and in vertices_2
VertexFloats == 9
\* sizeof(vertices_1) = sizeof(vertices_2)
SizeofVertices == VertexFloats * SizeofFloat
\* glVertexAttribPointer(0, 3, GL_FLOAT, GL_FALSE, 3 * sizeof(float), (void*)0)
AttribIndex == 0
AttribComponents == 3
AttribStride == 3 * SizeofFloat
AttribOffset == 0
\* glDrawArrays(GL_TRIANGLES, 0, 3)
DrawFirst == 0
\* a draw of one vertex more than was uploaded
DrawCount_mut == 3 + 1

DrawCount == 3
\* glClearColor(0.2f, 0.3f, 0.3f, 1.0f), in tenths
ClearColorArg == <<2, 3, 3, 10>>

\* the handles main holds, by the name of the variable holding them
ShaderHandles == {"vertexShader", "fragmentShader"}
VAOs == {"VAO_1", "VAO_2"}
VBOs == {"VBO_1", "VBO_2"}

\* the messages of the program
MsgWindow == "Failed to create GLFW window"
MsgGlad == "Failed to initialize GLAD"
MsgVertex == "ERROR::SHADER::VERTEX::COMPILATION_FAILED"
MsgFragment == "ERROR::SHADER::FRAGMENT::COMPILATION_FAILED"
MsgLink == "ERROR::SHADER::PROGRAM::LINKING_FAILED"
FailureMsgs == {MsgWindow, MsgGlad}

\* the lines of the loop body (190..211) and of the loop (187..211)
BodyPCs == {"L190", "L193", "L194", "L197", "L199", "L201", "L204", "L206",
            "L209", "L211"}
LoopPCs == BodyPCs \cup {"L187"}

FramebufferSizes == (1..MaxDim) \X (1..MaxDim)
NoResize == <<0, 0>>

----------------------------------------------------------------------------
\* The state after construction

NewShader == [created |-> FALSE, source |-> FALSE, compiles |-> 0,
              status |-> FALSE, deletes |-> 0]
NewProgram == [created |-> FALSE, attached |-> <<>>, links |-> 0,
               attachedAtLink |-> {}, status |-> FALSE, deletes |-> 0]
NoPointer == [buffer |-> "none", components |-> 0, stride |-> 0,
              offset |-> 0]
NewVAO == [generated |-> FALSE, enabled |-> {}, pointer |-> NoPointer,
           deletes |-> 0]
\* a colour buffer: the colour it was cleared to and the vertex arrays whose
\* triangles were rasterised into it since
Blank == [color |-> <<0, 0, 0, 0>>, drawn |-> {}]
NewVBO == [generated |-> FALSE, size |-> 0, uploads |-> 0, deletes |-> 0]

InitGL ==
    [shaders |-> [h \in ShaderHandles |-> NewShader],
     program |-> NewProgram,
     vaos |-> [v \in VAOs |-> NewVAO],
     vbos |-> [b \in VBOs |-> NewVBO],
     arrayBuffer |-> "none",
     vertexArray |-> "none",
     currentProgram |-> "none",
     clearColor |-> <<0, 0, 0, 0>>,
     viewport |-> <<0, 0>>,
     back |-> Blank,
     front |-> Blank,
     infoLogReads |-> 0]

InitGLFW ==
    [inits |-> 0, initOK |-> FALSE, window |-> "none", open |-> FALSE,
     current |-> FALSE, callback |-> FALSE, shouldClose |-> FALSE,
     escape |-> FALSE, terminates |-> 0]

Init ==
    /\ pc = "L40"
    /\ ret = <<>>
    /\ success = "unset"
    /\ out = <<>>
    /\ err = <<>>
    /\ glfw = InitGLFW
    /\ glad = "unset"
    /\ gl = InitGL
    /\ lastCall = [name |-> "none", refs |-> {}]
    /\ iterCalls = <<>>
    /\ staleUse = FALSE
    /\ frames = 0

----------------------------------------------------------------------------
\* GLFW, as main uses it.  f is the library's state before the call.

\* glfwInit(): ok is whether the platform lets the library initialise
glfwInit(f, ok) == [f EXCEPT !.inits = @ + 1, !.initOK = ok]

\* glfwCreateWindow(...): NULL when the library is not initialised or the
\* platform (ok) refuses the window or its context
glfwCreateWindow(f, ok) ==
    IF f.initOK /\ ok
    THEN [f EXCEPT !.window = "window", !.open = TRUE]
    ELSE [f EXCEPT !.window = "NULL"]

glfwMakeContextCurrent(f) == [f EXCEPT !.current = TRUE]

glfwSetFramebufferSizeCallback(f) == [f EXCEPT !.callback = TRUE]

glfwWindowShouldClose(f) == f.shouldClose

glfwGetKey(f) == f.escape

glfwSetWindowShouldClose(f, value) == [f EXCEPT !.shouldClose = value]

\* glfwPollEvents(): the events received since the last poll are processed.
\* key is the escape key's state after them, close whether the user asked
\* to close the window.
glfwPollEvents(f, key, close) ==
    [f EXCEPT !.escape = key, !.shouldClose = @ \/ close]

\* glfwTerminate(): destroys the remaining windows and frees the library
glfwTerminate(f) == [f EXCEPT !.terminates = @ + 1, !.open = FALSE,
                              !.current = FALSE, !.initOK = FALSE]

----------------------------------------------------------------------------
\* OpenGL, as main uses it.  g is the context's state before the call.

glCreateShader(g, h) == [g EXCEPT !.shaders[h].created = TRUE]

glShaderSource(g, h) == [g EXCEPT !.shaders[h].source = TRUE]

\* ok is the driver's verdict on the source
glCompileShader(g, h, ok) ==
    [g EXCEPT !.shaders[h].compiles = @ + 1, !.shaders[h].status = ok]

\* glGetShaderiv(h, GL_COMPILE_STATUS, &success)
glGetShaderiv(g, h) == g.shaders[h].status

\* glGetShaderInfoLog / glGetProgramInfoLog(.., 512, NULL, infoLog)
glGetInfoLog(g) == [g EXCEPT !.infoLogReads = @ + 1]

glCreateProgram(g) == [g EXCEPT !.program.created = TRUE]

glAttachShader(g, h) == [g EXCEPT !.program.attached = Append(@, h)]

\* ok is the driver's verdict on the attached stages
glLinkProgram(g, ok) ==
    [g EXCEPT !.program.links = @ + 1, !.program.status = ok,
              !.program.attachedAtLink =
                  {g.program.attached[i] : i \in DOMAIN g.program.attached}]

\* glGetProgramiv(shaderProgram, GL_LINK_STATUS, &success)
glGetProgramiv(g) == g.program.status

glDeleteShader(g, h) == [g EXCEPT !.shaders[h].deletes = @ + 1]

glGenVertexArrays(g, v) == [g EXCEPT !.vaos[v].generated = TRUE]

glGenBuffers(g, b) == [g EXCEPT !.vbos[b].generated = TRUE]

glBindVertexArray(g, v) == [g EXCEPT !.vertexArray = v]

\* glBindBuffer(GL_ARRAY_BUFFER, b)
glBindBuffer(g, b) == [g EXCEPT !.arrayBuffer = b]

\* glBufferData(GL_ARRAY_BUFFER, size, data, GL_STATIC_DRAW): the store of the
\* buffer bound to GL_ARRAY_BUFFER is replaced; an error when none is bound
glBufferData(g, size) ==
    IF g.arrayBuffer = "none" THEN g
    ELSE [g EXCEPT !.vbos[g.arrayBuffer].size = size,
                   !.vbos[g.arrayBuffer].uploads = @ + 1]

\* glVertexAttribPointer(index, components, GL_FLOAT, GL_FALSE, stride, offset):
\* the bound vertex array records the layout and the buffer now bound to
\* GL_ARRAY_BUFFER
glVertexAttribPointer(g, components, stride, offset) ==
    IF g.vertexArray = "none" THEN g
    ELSE [g EXCEPT !.vaos[g.vertexArray].pointer =
                       [buffer |-> g.arrayBuffer, components |-> components,
                        stride |-> stride, offset |-> offset]]

glEnableVertexAttribArray(g, index) ==
    IF g.vertexArray = "none" THEN g
    ELSE [g EXCEPT !.vaos[g.vertexArray].enabled = @ \cup {index}]

glClearColor(g, c) == [g EXCEPT !.clearColor = c]

\* glClear(GL_COLOR_BUFFER_BIT)
glClear(g) == [g EXCEPT !.back = [color |-> g.clearColor, drawn |-> {}]]

\* glUseProgram(p): GL_INVALID_OPERATION, and no change, when p is not linked
glUseProgram(g, p) ==
    IF g.program.status THEN [g EXCEPT !.currentProgram = p] ELSE g

\* glDrawArrays(GL_TRIANGLES, first, count): rasterises into the back buffer
\* when a program is current; otherwise nothing becomes visible
glDrawArrays(g, first, count) ==
    IF g.currentProgram # "none" /\ g.vertexArray # "none" /\ count > 0
    THEN [g EXCEPT !.back.drawn = @ \cup {g.vertexArray}]
    ELSE g

\* glfwSwapBuffers(window): the back buffer becomes the front buffer; what the
\* back buffer holds afterwards is undefined: here the old front buffer
\* (keep = FALSE) or a copy of what was presented (keep = TRUE)
glfwSwapBuffers(g, keep) ==
    [g EXCEPT !.front = g.back, !.back = IF keep THEN g.back ELSE g.front]

glViewport(g, width, height) == [g EXCEPT !.viewport = <<width, height>>]

\* a deleted vertex array that is bound is unbound
glDeleteVertexArrays(g, v) ==
    [g EXCEPT !.vaos[v].deletes = @ + 1,
              !.vertexArray = IF @ = v THEN "none" ELSE @]

\* a deleted buffer that is bound is unbound
glDeleteBuffers(g, b) ==
    [g EXCEPT !.vbos[b].deletes = @ + 1,
              !.arrayBuffer = IF @ = b THEN "none" ELSE @]

glDeleteProgram(g) == [g EXCEPT !.program.deletes = @ + 1]

\* void framebuffer_size_callback(GLFWwindow* window, int width, int height)
framebuffer_size_callback(g, width, height) == glViewport(g, width, height)

\* void processInput(GLFWwindow* window)
processInput(f) ==
    IF glfwGetKey(f) THEN glfwSetWindowShouldClose(f, TRUE) ELSE f

----------------------------------------------------------------------------
\* Bookkeeping of the calls issued

\* handle h was handed to a glDelete* call
Deleted(h) ==
    IF h \in ShaderHandles THEN gl.shaders[h].deletes > 0
    ELSE IF h \in VAOs THEN gl.vaos[h].deletes > 0
    ELSE IF h \in VBOs THEN gl.vbos[h].deletes > 0
    ELSE IF h = "shaderProgram" THEN gl.program.deletes > 0
    ELSE FALSE

CallRec(name, refs) == [name |-> name, refs |-> refs]

\* the statement at pc issues the calls cs (a sequence, in order)
Issue(cs) ==
    /\ lastCall' = cs[Len(cs)]
    /\ staleUse' = (staleUse \/ \E i \in DOMAIN cs : \E h \in cs[i].refs : Deleted(h))
    /\ iterCalls' = IF pc \in BodyPCs THEN iterCalls \o cs ELSE iterCalls

\* the statement at pc issues no library call
NoCall == UNCHANGED <<lastCall, staleUse, iterCalls>>

Goto(from, to) == pc = from /\ pc' = to

----------------------------------------------------------------------------
\* main, statement by statement

\* glfwInit();
L40_glfwInit ==
    \E ok \in BOOLEAN :
        /\ Goto("L40", "L50")
        /\ glfw' = glfwInit(glfw, ok)
        /\ Issue(<<CallRec("glfwInit", {})>>)
        /\ UNCHANGED <<ret, success, out, err, glad, gl, frames>>

\* GLFWwindow* window = glfwCreateWindow(SCR_WIDTH, SCR_HEIGHT, "LearnOpenGL", NULL, NULL);
L50_glfwCreateWindow ==
    \E ok \in BOOLEAN :
        /\ Goto("L50", "L53")
        /\ glfw' = glfwCreateWindow(glfw, ok)
        /\ Issue(<<CallRec("glfwCreateWindow", {})>>)
        /\ UNCHANGED <<ret, success, out, err, glad, gl, frames>>

\* if (window == NULL)
L53_if ==
    /\ pc = "L53"
    /\ pc' = IF glfw.window = "NULL" THEN "L55" ELSE "L63"
    /\ NoCall
    /\ UNCHANGED <<ret, success, out, err, glfw, glad, gl, frames>>

\* std::cout << "Failed to create GLFW window" << std::endl;
L55_cout ==
    /\ Goto("L55", "L57")
    /\ out' = Append(out, MsgWindow)
    /\ NoCall
    /\ UNCHANGED <<ret, success, err, glfw, glad, gl, frames>>

\* glfwTerminate();
L57_glfwTerminate ==
    /\ Goto("L57", "L59")
    /\ glfw' = glfwTerminate(glfw)
    /\ Issue(<<CallRec("glfwTerminate", {})>>)
    /\ UNCHANGED <<ret, success, out, err, glad, gl, frames>>

\* return -1;
L59_return ==
    /\ Goto("L59", "done")
    /\ ret' = <<-1>>
    /\ NoCall
    /\ UNCHANGED <<success, out, err, glfw, glad, gl, frames>>

\* glfwMakeContextCurrent(window); a context made current for the first time
\* gets the window's size as its viewport
L63_glfwMakeContextCurrent ==
    /\ Goto("L63", "L65")
    /\ glfw' = glfwMakeContextCurrent(glfw)
    /\ gl' = glViewport(gl, SCR_WIDTH, SCR_HEIGHT)
    /\ Issue(<<CallRec("glfwMakeContextCurrent", {})>>)
    /\ UNCHANGED <<ret, success, out, err, glad, frames>>

\* glfwSetFramebufferSizeCallback(window, framebuffer_size_callback);
L65_glfwSetFramebufferSizeCallback ==
    /\ Goto("L65", "L68")
    /\ glfw' = glfwSetFramebufferSizeCallback(glfw)
    /\ Issue(<<CallRec("glfwSetFramebufferSizeCallback", {})>>)
    /\ UNCHANGED <<ret, success, out, err, glad, gl, frames>>

\* L68_gladLoadGLLoader with the result ignored
L68_gladLoadGLLoader_mut ==
    \E ok \in BOOLEAN :
        /\ pc = "L68"
        /\ glad' = IF ok THEN "ok" ELSE "fail"
        /\ pc' = "L75"
        /\ Issue(<<CallRec("gladLoadGLLoader", {})>>)
        /\ UNCHANGED <<ret, success, out, err, glfw, gl, frames>>

\* if (!gladLoadGLLoader((GLADloadproc)glfwGetProcAddress))
L68_gladLoadGLLoader ==
    \E ok \in BOOLEAN :
        /\ pc = "L68"
        /\ glad' = IF ok THEN "ok" ELSE "fail"
        /\ pc' = IF ok THEN "L75" ELSE "L70"
        /\ Issue(<<CallRec("gladLoadGLLoader", {})>>)
        /\ UNCHANGED <<ret, success, out, err, glfw, gl, frames>>

\* L70_cout writing to std::cerr
L70_cout_mut ==
    /\ Goto("L70", "L71")
    /\ err' = Append(err, MsgGlad)
    /\ NoCall
    /\ UNCHANGED <<ret, success, out, glfw, glad, gl, frames>>

\* std::cout << "Failed to initialize GLAD" << std::endl;
L70_cout ==
    /\ Goto("L70", "L71")
    /\ out' = Append(out, MsgGlad)
    /\ NoCall
    /\ UNCHANGED <<ret, success, err, glfw, glad, gl, frames>>

\* L71_return with the return value of a normal exit
L71_return_mut ==
    /\ Goto("L71", "done")
    /\ ret' = <<0>>
    /\ NoCall
    /\ UNCHANGED <<success, out, err, glfw, glad, gl, frames>>

\* return -1;
L71_return ==
    /\ Goto("L71", "done")
    /\ ret' = <<-1>>
    /\ NoCall
    /\ UNCHANGED <<success, out, err, glfw, glad, gl, frames>>

\* unsigned int vertexShader = glCreateShader(GL_VERTEX_SHADER);
L75_glCreateShader ==
    /\ Goto("L75", "L77")
    /\ gl' = glCreateShader(gl, "vertexShader")
    /\ Issue(<<CallRec("glCreateShader", {})>>)
    /\ UNCHANGED <<ret, success, out, err, glfw, glad, frames>>

\* glShaderSource(vertexShader, 1, &vertexShaderSource, NULL);
L77_glShaderSource ==
    /\ Goto("L77", "L79")
    /\ gl' = glShaderSource(gl, "vertexShader")
    /\ Issue(<<CallRec("glShaderSource", {"vertexShader"})>>)
    /\ UNCHANGED <<ret, success, out, err, glfw, glad, frames>>

\* glCompileShader(vertexShader);
L79_glCompileShader ==
    \E ok \in BOOLEAN :
        /\ Goto("L79", "L86")
        /\ gl' = glCompileShader(gl, "vertexShader", ok)
        /\ Issue(<<CallRec("glCompileShader", {"vertexShader"})>>)
        /\ UNCHANGED <<ret, success, out, err, glfw, glad, frames>>

\* glGetShaderiv(vertexShader, GL_COMPILE_STATUS, &success);
L86_glGetShaderiv ==
    /\ Goto("L86", "L89")
    /\ success' = glGetShaderiv(gl, "vertexShader")
    /\ Issue(<<CallRec("glGetShaderiv", {"vertexShader"})>>)
    /\ UNCHANGED <<ret, out, err, glfw, glad, gl, frames>>

\* if (!success)
L89_if ==
    /\ pc = "L89"
    /\ pc' = IF success = FALSE THEN "L92" ELSE "L97"
    /\ NoCall
    /\ UNCHANGED <<ret, success, out, err, glfw, glad, gl, frames>>

\* glGetShaderInfoLog(vertexShader, 512, NULL, infoLog);
L92_glGetShaderInfoLog ==
    /\ Goto("L92", "L93")
    /\ gl' = glGetInfoLog(gl)
    /\ Issue(<<CallRec("glGetShaderInfoLog", {"vertexShader"})>>)
    /\ UNCHANGED <<ret, success, out, err, glfw, glad, frames>>

\* std::cout << "ERROR::SHADER::...::COMPILATION_FAILED\n" << infoLog << std::endl;
L93_cout ==
    /\ Goto("L93", "L97")
    /\ out' = Append(out, MsgVertex)
    /\ NoCall
    /\ UNCHANGED <<ret, success, err, glfw, glad, gl, frames>>

\* unsigned int fragmentShader = glCreateShader(GL_FRAGMENT_SHADER);
L97_glCreateShader ==
    /\ Goto("L97", "L98")
    /\ gl' = glCreateShader(gl, "fragmentShader")
    /\ Issue(<<CallRec("glCreateShader", {})>>)
    /\ UNCHANGED <<ret, success, out, err, glfw, glad, frames>>

\* glShaderSource(fragmentShader, 1, &fragmentShaderSource, NULL);
L98_glShaderSource ==
    /\ Goto("L98", "L99")
    /\ gl' = glShaderSource(gl, "fragmentShader")
    /\ Issue(<<CallRec("glShaderSource", {"fragmentShader"})>>)
    /\ UNCHANGED <<ret, success, out, err, glfw, glad, frames>>

\* glCompileShader(fragmentShader);
L99_glCompileShader ==
    \E ok \in BOOLEAN :
        /\ Goto("L99", "L102")
        /\ gl' = glCompileShader(gl, "fragmentShader", ok)
        /\ Issue(<<CallRec("glCompileShader", {"fragmentShader"})>>)
        /\ UNCHANGED <<ret, success, out, err, glfw, glad, frames>>

\* glGetShaderiv(fragmentShader, GL_COMPILE_STATUS, &success);
L102_glGetShaderiv ==
    /\ Goto("L102", "L103")
    /\ success' = glGetShaderiv(gl, "fragmentShader")
    /\ Issue(<<CallRec("glGetShaderiv", {"fragmentShader"})>>)
    /\ UNCHANGED <<ret, out, err, glfw, glad, gl, frames>>

\* L103_if with the test inverted: if (success)
L103_if_mut ==
    /\ pc = "L103"
    /\ pc' = IF success = TRUE THEN "L105" ELSE "L110"
    /\ NoCall
    /\ UNCHANGED <<ret, success, out, err, glfw, glad, gl, frames>>

\* if (!success)
L103_if ==
    /\ pc = "L103"
    /\ pc' = IF success = FALSE THEN "L105" ELSE "L110"
    /\ NoCall
    /\ UNCHANGED <<ret, success, out, err, glfw, glad, gl, frames>>

\* glGetShaderInfoLog(fragmentShader, 512, NULL, infoLog);
L105_glGetShaderInfoLog ==
    /\ Goto("L105", "L106")
    /\ gl' = glGetInfoLog(gl)
    /\ Issue(<<CallRec("glGetShaderInfoLog", {"fragmentShader"})>>)
    /\ UNCHANGED <<ret, success, out, err, glfw, glad, frames>>

\* std::cout << "ERROR::SHADER::...::COMPILATION_FAILED\n" << infoLog << std::endl;
L106_cout ==
    /\ Goto("L106", "L110")
    /\ out' = Append(out, MsgFragment)
    /\ NoCall
    /\ UNCHANGED <<ret, success, err, glfw, glad, gl, frames>>

\* unsigned int shaderProgram = glCreateProgram();
L110_glCreateProgram ==
    /\ Goto("L110", "L112")
    /\ gl' = glCreateProgram(gl)
    /\ Issue(<<CallRec("glCreateProgram", {})>>)
    /\ UNCHANGED <<ret, success, out, err, glfw, glad, frames>>

\* glAttachShader(shaderProgram, vertexShader);
L112_glAttachShader ==
    /\ Goto("L112", "L113")
    /\ gl' = glAttachShader(gl, "vertexShader")
    /\ Issue(<<CallRec("glAttachShader", {"shaderProgram", "vertexShader"})>>)
    /\ UNCHANGED <<ret, success, out, err, glfw, glad, frames>>

\* glAttachShader(shaderProgram, fragmentShader);
L113_glAttachShader ==
    /\ Goto("L113", "L115")
    /\ gl' = glAttachShader(gl, "fragmentShader")
    /\ Issue(<<CallRec("glAttachShader", {"shaderProgram", "fragmentShader"})>>)
    /\ UNCHANGED <<ret, success, out, err, glfw, glad, frames>>

\* glLinkProgram(shaderProgram);
L115_glLinkProgram ==
    \E ok \in BOOLEAN :
        /\ Goto("L115", "L118")
        /\ gl' = glLinkProgram(gl, ok)
        /\ Issue(<<CallRec("glLinkProgram", {"shaderProgram"})>>)
        /\ UNCHANGED <<ret, success, out, err, glfw, glad, frames>>

\* glGetProgramiv(shaderProgram, GL_LINK_STATUS, &success);
L118_glGetProgramiv ==
    /\ Goto("L118", "L119")
    /\ success' = glGetProgramiv(gl)
    /\ Issue(<<CallRec("glGetProgramiv", {"shaderProgram"})>>)
    /\ UNCHANGED <<ret, out, err, glfw, glad, gl, frames>>

\* if (!success)
L119_if ==
    /\ pc = "L119"
    /\ pc' = IF success = FALSE THEN "L121" ELSE "L126"
    /\ NoCall
    /\ UNCHANGED <<ret, success, out, err, glfw, glad, gl, frames>>

\* glGetProgramInfoLog(shaderProgram, 512, NULL, infoLog);
L121_glGetProgramInfoLog ==
    /\ Goto("L121", "L122")
    /\ gl' = glGetInfoLog(gl)
    /\ Issue(<<CallRec("glGetProgramInfoLog", {"shaderProgram"})>>)
    /\ UNCHANGED <<ret, success, out, err, glfw, glad, frames>>

\* std::cout << "ERROR::SHADER::PROGRAM::LINKING_FAILED\n" << infoLog << std::endl;
L122_cout ==
    /\ Goto("L122", "L126")
    /\ out' = Append(out, MsgLink)
    /\ NoCall
    /\ UNCHANGED <<ret, success, err, glfw, glad, gl, frames>>

\* glDeleteShader(vertexShader);
L126_glDeleteShader ==
    /\ Goto("L126", "L127")
    /\ gl' = glDeleteShader(gl, "vertexShader")
    /\ Issue(<<CallRec("glDeleteShader", {"vertexShader"})>>)
    /\ UNCHANGED <<ret, success, out, err, glfw, glad, frames>>

\* L127_glDeleteShader deleting the vertex stage a second time
L127_glDeleteShader_mut ==
    /\ Goto("L127", "L146")
    /\ gl' = glDeleteShader(gl, "vertexShader")
    /\ Issue(<<CallRec("glDeleteShader", {"vertexShader"})>>)
    /\ UNCHANGED <<ret, success, out, err, glfw, glad, frames>>

\* glDeleteShader(fragmentShader);
L127_glDeleteShader ==
    /\ Goto("L127", "L146")
    /\ gl' = glDeleteShader(gl, "fragmentShader")
    /\ Issue(<<CallRec("glDeleteShader", {"fragmentShader"})>>)
    /\ UNCHANGED <<ret, success, out, err, glfw, glad, frames>>

\* glGenVertexArrays(1, &VAO_1);
L146_glGenVertexArrays ==
    /\ Goto("L146", "L147")
    /\ gl' = glGenVertexArrays(gl, "VAO_1")
    /\ Issue(<<CallRec("glGenVertexArrays", {})>>)
    /\ UNCHANGED <<ret, success, out, err, glfw, glad, frames>>

\* glGenVertexArrays(1, &VAO_2);
L147_glGenVertexArrays ==
    /\ Goto("L147", "L150")
    /\ gl' = glGenVertexArrays(gl, "VAO_2")
    /\ Issue(<<CallRec("glGenVertexArrays", {})>>)
    /\ UNCHANGED <<ret, success, out, err, glfw, glad, frames>>

\* glGenBuffers(1, &VBO_1);
L150_glGenBuffers ==
    /\ Goto("L150", "L151")
    /\ gl' = glGenBuffers(gl, "VBO_1")
    /\ Issue(<<CallRec("glGenBuffers", {})>>)
    /\ UNCHANGED <<ret, success, out, err, glfw, glad, frames>>

\* glGenBuffers(1, &VBO_2);
L151_glGenBuffers ==
    /\ Goto("L151", "L155")
    /\ gl' = glGenBuffers(gl, "VBO_2")
    /\ Issue(<<CallRec("glGenBuffers", {})>>)
    /\ UNCHANGED <<ret, success, out, err, glfw, glad, frames>>

\* glBindVertexArray(VAO_1);
L155_glBindVertexArray ==
    /\ Goto("L155", "L158")
    /\ gl' = glBindVertexArray(gl, "VAO_1")
    /\ Issue(<<CallRec("glBindVertexArray", {"VAO_1"})>>)
    /\ UNCHANGED <<ret, success, out, err, glfw, glad, frames>>

\* glBindBuffer(GL_ARRAY_BUFFER, VBO_1);
L158_glBindBuffer ==
    /\ Goto("L158", "L160")
    /\ gl' = glBindBuffer(gl, "VBO_1")
    /\ Issue(<<CallRec("glBindBuffer", {"VBO_1"})>>)
    /\ UNCHANGED <<ret, success, out, err, glfw, glad, frames>>

\* glBufferData(GL_ARRAY_BUFFER, sizeof(vertices_1), vertices_1, GL_STATIC_DRAW);
L160_glBufferData ==
    /\ Goto("L160", "L163")
    /\ gl' = glBufferData(gl, SizeofVertices)
    /\ Issue(<<CallRec("glBufferData", {})>>)
    /\ UNCHANGED <<ret, success, out, err, glfw, glad, frames>>

\* glVertexAttribPointer(0, 3, GL_FLOAT, GL_FALSE, 3 * sizeof(float), (void*)0);
L163_glVertexAttribPointer ==
    /\ Goto("L163", "L165")
    /\ gl' = glVertexAttribPointer(gl, AttribComponents, AttribStride, AttribOffset)
    /\ Issue(<<CallRec("glVertexAttribPointer", {})>>)
    /\ UNCHANGED <<ret, success, out, err, glfw, glad, frames>>

\* glEnableVertexAttribArray(0);
L165_glEnableVertexAttribArray ==
    /\ Goto("L165", "L171")
    /\ gl' = glEnableVertexAttribArray(gl, AttribIndex)
    /\ Issue(<<CallRec("glEnableVertexAttribArray", {})>>)
    /\ UNCHANGED <<ret, success, out, err, glfw, glad, frames>>

\* glBindVertexArray(VAO_2);
L171_glBindVertexArray ==
    /\ Goto("L171", "L174")
    /\ gl' = glBindVertexArray(gl, "VAO_2")
    /\ Issue(<<CallRec("glBindVertexArray", {"VAO_2"})>>)
    /\ UNCHANGED <<ret, success, out, err, glfw, glad, frames>>

\* L174_glBindBuffer binding the first buffer again
L174_glBindBuffer_mut ==
    /\ Goto("L174", "L176")
    /\ gl' = glBindBuffer(gl, "VBO_1")
    /\ Issue(<<CallRec("glBindBuffer", {"VBO_1"})>>)
    /\ UNCHANGED <<ret, success, out, err, glfw, glad, frames>>

\* glBindBuffer(GL_ARRAY_BUFFER, VBO_2);
L174_glBindBuffer ==
    /\ Goto("L174", "L176")
    /\ gl' = glBindBuffer(gl, "VBO_2")
    /\ Issue(<<CallRec("glBindBuffer", {"VBO_2"})>>)
    /\ UNCHANGED <<ret, success, out, err, glfw, glad, frames>>

\* glBufferData(GL_ARRAY_BUFFER, sizeof(vertices_2), vertices_2, GL_STATIC_DRAW);
L176_glBufferData ==
    /\ Goto("L176", "L179")
    /\ gl' = glBufferData(gl, SizeofVertices)
    /\ Issue(<<CallRec("glBufferData", {})>>)
    /\ UNCHANGED <<ret, success, out, err, glfw, glad, frames>>

\* glVertexAttribPointer(0, 3, GL_FLOAT, GL_FALSE, 3 * sizeof(float), (void*)0);
L179_glVertexAttribPointer ==
    /\ Goto("L179", "L181")
    /\ gl' = glVertexAttribPointer(gl, AttribComponents, AttribStride, AttribOffset)
    /\ Issue(<<CallRec("glVertexAttribPointer", {})>>)
    /\ UNCHANGED <<ret, success, out, err, glfw, glad, frames>>

\* glEnableVertexAttribArray(0);
L181_glEnableVertexAttribArray ==
    /\ Goto("L181", "L187")
    /\ gl' = glEnableVertexAttribArray(gl, AttribIndex)
    /\ Issue(<<CallRec("glEnableVertexAttribArray", {})>>)
    /\ UNCHANGED <<ret, success, out, err, glfw, glad, frames>>

\* L187_while entering the body whatever the flag says
L187_while_mut ==
    /\ pc = "L187"
    /\ pc' = "L190"
    /\ lastCall' = CallRec("glfwWindowShouldClose", {})
    /\ iterCalls' = <<CallRec("glfwWindowShouldClose", {})>>
    /\ frames' = IF frames < MaxFrames THEN frames + 1 ELSE frames
    /\ UNCHANGED <<ret, success, out, err, glfw, glad, gl, staleUse>>

\* while (!glfwWindowShouldClose(window)): the flag is read; an iteration
\* starts when it is not set, the loop is left when it is
L187_while ==
    /\ pc = "L187"
    /\ pc' = IF glfwWindowShouldClose(glfw) THEN "L215" ELSE "L190"
    /\ lastCall' = CallRec("glfwWindowShouldClose", {})
    /\ iterCalls' = <<CallRec("glfwWindowShouldClose", {})>>
    /\ frames' = IF ~glfwWindowShouldClose(glfw) /\ frames < MaxFrames
                 THEN frames + 1 ELSE frames
    /\ UNCHANGED <<ret, success, out, err, glfw, glad, gl, staleUse>>

\* processInput(window);
L190_processInput ==
    /\ Goto("L190", "L193")
    /\ glfw' = processInput(glfw)
    /\ Issue(IF glfwGetKey(glfw)
             THEN <<CallRec("glfwGetKey", {}), CallRec("glfwSetWindowShouldClose", {})>>
             ELSE <<CallRec("glfwGetKey", {})>>)
    /\ UNCHANGED <<ret, success, out, err, glad, gl, frames>>

\* glClearColor(0.2f, 0.3f, 0.3f, 1.0f);
L193_glClearColor ==
    /\ Goto("L193", "L194")
    /\ gl' = glClearColor(gl, ClearColorArg)
    /\ Issue(<<CallRec("glClearColor", {})>>)
    /\ UNCHANGED <<ret, success, out, err, glfw, glad, frames>>

\* glClear(GL_COLOR_BUFFER_BIT);
L194_glClear ==
    /\ Goto("L194", "L197")
    /\ gl' = glClear(gl)
    /\ Issue(<<CallRec("glClear", {})>>)
    /\ UNCHANGED <<ret, success, out, err, glfw, glad, frames>>

\* glUseProgram(shaderProgram);
L197_glUseProgram ==
    /\ Goto("L197", "L199")
    /\ gl' = glUseProgram(gl, "shaderProgram")
    /\ Issue(<<CallRec("glUseProgram", {"shaderProgram"})>>)
    /\ UNCHANGED <<ret, success, out, err, glfw, glad, frames>>

\* glBindVertexArray(VAO_1);
L199_glBindVertexArray ==
    /\ Goto("L199", "L201")
    /\ gl' = glBindVertexArray(gl, "VAO_1")
    /\ Issue(<<CallRec("glBindVertexArray", {"VAO_1"})>>)
    /\ UNCHANGED <<ret, success, out, err, glfw, glad, frames>>

\* glDrawArrays(GL_TRIANGLES, 0, 3); the call uses the bound vertex array and
\* the current program
L201_glDrawArrays ==
    /\ Goto("L201", "L204")
    /\ gl' = glDrawArrays(gl, DrawFirst, DrawCount)
    /\ Issue(<<CallRec("glDrawArrays", {gl.vertexArray, gl.currentProgram} \ {"none"})>>)
    /\ UNCHANGED <<ret, success, out, err, glfw, glad, frames>>

\* L204_glBindVertexArray binding the first vertex array again
L204_glBindVertexArray_mut ==
    /\ Goto("L204", "L206")
    /\ gl' = glBindVertexArray(gl, "VAO_1")
    /\ Issue(<<CallRec("glBindVertexArray", {"VAO_1"})>>)
    /\ UNCHANGED <<ret, success, out, err, glfw, glad, frames>>

\* glBindVertexArray(VAO_2);
L204_glBindVertexArray ==
    /\ Goto("L204", "L206")
    /\ gl' = glBindVertexArray(gl, "VAO_2")
    /\ Issue(<<CallRec("glBindVertexArray", {"VAO_2"})>>)
    /\ UNCHANGED <<ret, success, out, err, glfw, glad, frames>>

\* glDrawArrays(GL_TRIANGLES, 0, 3);
L206_glDrawArrays ==
    /\ Goto("L206", "L209")
    /\ gl' = glDrawArrays(gl, DrawFirst, DrawCount)
    /\ Issue(<<CallRec("glDrawArrays", {gl.vertexArray, gl.currentProgram} \ {"none"})>>)
    /\ UNCHANGED <<ret, success, out, err, glfw, glad, frames>>

\* glfwSwapBuffers(window);
L209_glfwSwapBuffers ==
    \E keep \in BOOLEAN :
        /\ Goto("L209", "L211")
        /\ gl' = glfwSwapBuffers(gl, keep)
        /\ Issue(<<CallRec("glfwSwapBuffers", {})>>)
        /\ UNCHANGED <<ret, success, out, err, glfw, glad, frames>>

\* glfwPollEvents(); a resize among the events calls the framebuffer-size
\* callback, if one is set, before the poll returns
L211_glfwPollEvents ==
    \E key \in BOOLEAN, close \in BOOLEAN, size \in FramebufferSizes \cup {NoResize} :
        /\ Goto("L211", "L187")
        /\ glfw' = glfwPollEvents(glfw, key, close)
        /\ gl' = IF size # NoResize /\ glfw.callback
                 THEN framebuffer_size_callback(gl, size[1], size[2])
                 ELSE gl
        /\ Issue(IF size # NoResize /\ glfw.callback
                 THEN <<CallRec("glfwPollEvents", {}), CallRec("glViewport", {})>>
                 ELSE <<CallRec("glfwPollEvents", {})>>)
        /\ UNCHANGED <<ret, success, out, err, glad, frames>>

\* glDeleteVertexArrays(1, &VAO_1);
L215_glDeleteVertexArrays ==
    /\ Goto("L215", "L216")
    /\ gl' = glDeleteVertexArrays(gl, "VAO_1")
    /\ Issue(<<CallRec("glDeleteVertexArrays", {"VAO_1"})>>)
    /\ UNCHANGED <<ret, success, out, err, glfw, glad, frames>>

\* glDeleteBuffers(1, &VBO_1);
L216_glDeleteBuffers ==
    /\ Goto("L216", "L217")
    /\ gl' = glDeleteBuffers(gl, "VBO_1")
    /\ Issue(<<CallRec("glDeleteBuffers", {"VBO_1"})>>)
    /\ UNCHANGED <<ret, success, out, err, glfw, glad, frames>>

\* glDeleteVertexArrays(1, &VAO_2);
L217_glDeleteVertexArrays ==
    /\ Goto("L217", "L218")
    /\ gl' = glDeleteVertexArrays(gl, "VAO_2")
    /\ Issue(<<CallRec("glDeleteVertexArrays", {"VAO_2"})>>)
    /\ UNCHANGED <<ret, success, out, err, glfw, glad, frames>>

\* glDeleteBuffers(1, &VBO_2);
L218_glDeleteBuffers ==
    /\ Goto("L218", "L219")
    /\ gl' = glDeleteBuffers(gl, "VBO_2")
    /\ Issue(<<CallRec("glDeleteBuffers", {"VBO_2"})>>)
    /\ UNCHANGED <<ret, success, out, err, glfw, glad, frames>>

\* glDeleteProgram(shaderProgram);
L219_glDeleteProgram ==
    /\ Goto("L219", "L222")
    /\ gl' = glDeleteProgram(gl)
    /\ Issue(<<CallRec("glDeleteProgram", {"shaderProgram"})>>)
    /\ UNCHANGED <<ret, success, out, err, glfw, glad, frames>>

\* glfwTerminate();
L222_glfwTerminate ==
    /\ Goto("L222", "L223")
    /\ glfw' = glfwTerminate(glfw)
    /\ Issue(<<CallRec("glfwTerminate", {})>>)
    /\ UNCHANGED <<ret, success, out, err, glad, gl, frames>>

\* return 0;
L223_return ==
    /\ Goto("L223", "done")
    /\ ret' = <<0>>
    /\ NoCall
    /\ UNCHANGED <<success, out, err, glfw, glad, gl, frames>>

Next ==
    \/ L40_glfwInit
    \/ L50_glfwCreateWindow
    \/ L53_if
    \/ L55_cout
    \/ L57_glfwTerminate
    \/ L59_return
    \/ L63_glfwMakeContextCurrent
    \/ L65_glfwSetFramebufferSizeCallback
    \/ L68_gladLoadGLLoader
    \/ L70_cout
    \/ L71_return
    \/ L75_glCreateShader
    \/ L77_glShaderSource
    \/ L79_glCompileShader
    \/ L86_glGetShaderiv
    \/ L89_if
    \/ L92_glGetShaderInfoLog
    \/ L93_cout
    \/ L97_glCreateShader
    \/ L98_glShaderSource
    \/ L99_glCompileShader
    \/ L102_glGetShaderiv
    \/ L103_if
    \/ L105_glGetShaderInfoLog
    \/ L106_cout
    \/ L110_glCreateProgram
    \/ L112_glAttachShader
    \/ L113_glAttachShader
    \/ L115_glLinkProgram
    \/ L118_glGetProgramiv
    \/ L119_if
    \/ L121_glGetProgramInfoLog
    \/ L122_cout
    \/ L126_glDeleteShader
    \/ L127_glDeleteShader
    \/ L146_glGenVertexArrays
    \/ L147_glGenVertexArrays
    \/ L150_glGenBuffers
    \/ L151_glGenBuffers
    \/ L155_glBindVertexArray
    \/ L158_glBindBuffer
    \/ L160_glBufferData
    \/ L163_glVertexAttribPointer
    \/ L165_glEnableVertexAttribArray
    \/ L171_glBindVertexArray
    \/ L174_glBindBuffer
    \/ L176_glBufferData
    \/ L179_glVertexAttribPointer
    \/ L181_glEnableVertexAttribArray
    \/ L187_while
    \/ L190_processInput
    \/ L193_glClearColor
    \/ L194_glClear
    \/ L197_glUseProgram
    \/ L199_glBindVertexArray
    \/ L201_glDrawArrays
    \/ L204_glBindVertexArray
    \/ L206_glDrawArrays
    \/ L209_glfwSwapBuffers
    \/ L211_glfwPollEvents
    \/ L215_glDeleteVertexArrays
    \/ L216_glDeleteBuffers
    \/ L217_glDeleteVertexArrays
    \/ L218_glDeleteBuffers
    \/ L219_glDeleteProgram
    \/ L222_glfwTerminate
    \/ L223_return

Spec == Init /\ [][Next]_vars

\* main runs on: no statement of it waits for anything but the library call
\* it makes
FairSpec == Spec /\ WF_vars(Next)

----------------------------------------------------------------------------
\* Vocabulary of the properties

\* how many entries of the sequence s lie in the set S
Count(s, S) == Cardinality({i \in DOMAIN s : s[i] \in S})

\* the OpenGL functions main and the callback call (gl*, not glfw* or glad*)
GLCalls ==
    {"glCreateShader", "glShaderSource", "glCompileShader", "glGetShaderiv",
     "glGetShaderInfoLog", "glCreateProgram", "glAttachShader",
     "glLinkProgram", "glGetProgramiv", "glGetProgramInfoLog",
     "glDeleteShader", "glGenVertexArrays", "glGenBuffers",
     "glBindVertexArray", "glBindBuffer", "glBufferData",
     "glVertexAttribPointer", "glEnableVertexAttribArray", "glClearColor",
     "glClear", "glUseProgram", "glDrawArrays", "glViewport",
     "glDeleteVertexArrays", "glDeleteBuffers", "glDeleteProgram"}

\* the calls that release what the program holds at its end
TeardownCalls ==
    {"glDeleteVertexArrays", "glDeleteBuffers", "glDeleteProgram",
     "glfwTerminate"}

\* the statements after the loop (lines 215..223)
TeardownPCs == {"L215", "L216", "L217", "L218", "L219", "L222", "L223"}

\* the render loop has been left
LoopExited == pc \in TeardownPCs \/ (pc = "done" /\ ret = <<0>>)

\* the loop has been reached: everything of lines 75..181 has run
SetupDone == pc \in LoopPCs \/ LoopExited

\* the phase a statement belongs to: 1 window and context, 2 function
\* loading, 3 shader compile and link, 4 vertex upload, 5 render loop,
\* 6 teardown, 7 returned
Phase(l) ==
    IF l \in {"L40", "L50", "L53", "L55", "L57", "L59", "L63", "L65"} THEN 1
    ELSE IF l \in {"L68", "L70", "L71"} THEN 2
    ELSE IF l \in {"L146", "L147", "L150", "L151", "L155", "L158", "L160",
                   "L163", "L165", "L171", "L174", "L176", "L179", "L181"}
    THEN 4
    ELSE IF l \in LoopPCs THEN 5
    ELSE IF l \in TeardownPCs THEN 6
    ELSE IF l = "done" THEN 7
    ELSE 3

\* the vertex buffer that belongs to a vertex array
OwnVBO(v) == IF v = "VAO_1" THEN "VBO_1" ELSE "VBO_2"

----------------------------------------------------------------------------
\* C1: main returns -1 exactly when window creation failed (glfwCreateWindow
\* gave NULL) or function loading failed (gladLoadGLLoader gave false), and 0
\* on every other terminating run, whatever the shader compiles and the
\* link reported.
C1_ExitCode ==
    pc = "done" =>
        /\ ret \in {<<0>>, <<-1>>}
        /\ ret = <<-1>> <=> (glfw.window = "NULL" \/ glad = "fail")
        /\ ret = <<0>> <=> (glfw.window = "window" /\ glad = "ok")

\* a run that ends with 0 although both compiles and the link failed
C1_Witness ==
    /\ pc = "done" /\ ret = <<0>>
    /\ ~gl.shaders["vertexShader"].status
    /\ ~gl.shaders["fragmentShader"].status
    /\ ~gl.program.status

\* C2, as claimed: when main returns -1, exactly one failure message was
\* written, and it went to standard error, not to standard output.
C2_MessageOnStderr ==
    (pc = "done" /\ ret = <<-1>>) =>
        /\ Count(err, FailureMsgs) = 1
        /\ Count(out, FailureMsgs) = 0

\* C2, amended: when main returns -1, exactly one failure message was
\* written before the return, to standard output (std::cout): the message of
\* the failure that happened; nothing was written to standard error.
C2_MessageOnStdout ==
    (pc = "done" /\ ret = <<-1>>) =>
        /\ out = IF glfw.window = "NULL" THEN <<MsgWindow>> ELSE <<MsgGlad>>
        /\ Count(out, FailureMsgs) = 1
        /\ err = <<>>

\* main has returned -1 after function loading failed
C2_Witness == pc = "done" /\ ret = <<-1>> /\ glad = "fail" /\ out = <<MsgGlad>>

\* the diagnostics the three status checks of lines 89, 103, 119 owe, once
\* all three have run
DiagnosticsOwed ==
    (IF gl.shaders["vertexShader"].status THEN <<>> ELSE <<MsgVertex>>)
    \o (IF gl.shaders["fragmentShader"].status THEN <<>> ELSE <<MsgFragment>>)
    \o (IF gl.program.status THEN <<>> ELSE <<MsgLink>>)

C3_Safety ==
    /\ SetupDone =>
          /\ out = DiagnosticsOwed
          /\ err = <<>>
          /\ \A h \in ShaderHandles : gl.shaders[h].compiles = 1
          /\ gl.program.links = 1
          /\ \A b \in VBOs : gl.vbos[b].uploads = 1
    /\ (pc = "done" /\ glad = "ok") => (ret = <<0>> /\ frames >= 1)

\* C3: each of the three status checks logs exactly one diagnostic to
\* standard output when its status is a failure and nothing when it is a
\* success; and whatever the three outcomes, the run does not abort: both
\* stages are compiled, the link is attempted, both buffers are uploaded
\* and the render loop is entered.
C3_LogAndContinue == []C3_Safety /\ (pc = "L75" ~> pc = "L190")

\* the loop body is entered after all three checks failed and logged
C3_Witness ==
    /\ pc = "L190"
    /\ out = <<MsgVertex, MsgFragment, MsgLink>>
    /\ \A b \in VBOs : gl.vbos[b].uploads = 1

\* no OpenGL call before the functions are loaded
C4_GLAfterLoad == lastCall.name \in GLCalls => glad = "ok"

\* no draw before the link was attempted and both vertex arrays and buffers
\* are set up
C4_DrawAfterSetup ==
    lastCall.name = "glDrawArrays" =>
        /\ gl.program.links >= 1
        /\ \A b \in VBOs : gl.vbos[b].uploads >= 1
        /\ \A v \in VAOs : /\ gl.vaos[v].pointer.buffer # "none"
                           /\ AttribIndex \in gl.vaos[v].enabled

\* C4, as claimed: no OpenGL call before gladLoadGLLoader succeeded, no draw
\* before the link attempt and the vertex setup, and no teardown call
\* before the render loop has exited.
C4_TeardownOnlyAfterLoop ==
    /\ C4_GLAfterLoad
    /\ C4_DrawAfterSetup
    /\ lastCall.name \in TeardownCalls => LoopExited

C4_Safety ==
    /\ C4_GLAfterLoad
    /\ C4_DrawAfterSetup
    /\ lastCall.name \in TeardownCalls =>
          \/ LoopExited
          \/ /\ lastCall.name = "glfwTerminate"
             /\ glfw.window = "NULL"
             /\ glad = "unset"
             /\ pc \in {"L59", "done"}

\* C4, amended: the phases occur in the order window and context creation,
\* function loading, shader compile and link, vertex upload, render loop,
\* teardown; no OpenGL call before gladLoadGLLoader succeeded; no draw
\* before the link attempt and the vertex setup; and no teardown call
\* before the render loop has exited, except the glfwTerminate of the
\* window-creation failure path (line 57), issued when no window exists and
\* no later phase was started.
C4_PhaseOrder == []C4_Safety /\ [][Phase(pc') >= Phase(pc)]_vars

\* a run that went through every phase and is about to return
C4_Witness == pc = "L223" /\ frames >= 1 /\ lastCall.name = "glfwTerminate"

\* the rendering calls of an iteration: name and vertex array
RenderOps == {"glClear", "glUseProgram", "glBindVertexArray", "glDrawArrays",
              "glfwSwapBuffers", "glfwPollEvents"}
RenderCall(c) == <<c.name, c.refs \cap VAOs>>
Rendered == [i \in DOMAIN SelectSeq(iterCalls, LAMBDA c : c.name \in RenderOps)
               |-> RenderCall(SelectSeq(iterCalls, LAMBDA c : c.name \in RenderOps)[i])]
IterationOrder ==
    << <<"glClear", {}>>, <<"glUseProgram", {}>>,
       <<"glBindVertexArray", {"VAO_1"}>>, <<"glDrawArrays", {"VAO_1"}>>,
       <<"glBindVertexArray", {"VAO_2"}>>, <<"glDrawArrays", {"VAO_2"}>>,
       <<"glfwSwapBuffers", {}>>, <<"glfwPollEvents", {}>> >>
\* how many rendering calls an iteration has issued when pc is reached
IssuedAt(l) ==
    IF l \in {"L190", "L193", "L194"} THEN 0
    ELSE IF l = "L197" THEN 1 ELSE IF l = "L199" THEN 2
    ELSE IF l = "L201" THEN 3 ELSE IF l = "L204" THEN 4
    ELSE IF l = "L206" THEN 5 ELSE IF l = "L209" THEN 6
    ELSE IF l = "L211" THEN 7 ELSE 8

\* C5: every iteration of the loop issues exactly: one clear, the activation
\* of the program, the bind of VAO_1 and a draw, the bind of VAO_2 and a
\* draw, one swap, one poll, in this order; so a swap has one clear and two
\* draws with different vertex arrays before it in its iteration, and
\* nothing is drawn between a swap and the next clear.
C5_IterationOrder ==
    /\ pc \in BodyPCs =>
          /\ Len(Rendered) = IssuedAt(pc)
          /\ Rendered = SubSeq(IterationOrder, 1, Len(Rendered))
    /\ (pc = "L187" /\ frames >= 1) => Rendered = IterationOrder

\* the second iteration is complete
C5_Witness == pc = "L187" /\ frames = 2 /\ Rendered = IterationOrder

C6_Safety ==
    /\ pc \in BodyPCs =>
          /\ iterCalls[1].name = "glfwWindowShouldClose"
          /\ Count([i \in DOMAIN iterCalls |-> iterCalls[i].name],
                   {"glfwWindowShouldClose"}) = 1
          /\ pc # "L190" => lastCall.name # "glfwWindowShouldClose"
    /\ (lastCall.name = "glfwWindowShouldClose" /\ pc # "done") =>
          pc = IF glfw.shouldClose THEN "L215" ELSE "L190"

C6_Step ==
    /\ (pc \in LoopPCs /\ pc' \notin LoopPCs) => (pc = "L187" /\ glfw.shouldClose)
    /\ (pc = "L187" /\ pc' = "L190") => ~glfw.shouldClose
    /\ glfw.shouldClose => glfw'.shouldClose

\* processInput has just seen the escape key pressed and set the flag
EscapeSeen == pc = "L193" /\ lastCall.name = "glfwSetWindowShouldClose"

\* C6: the close flag is read once per iteration, at the loop head, and the
\* loop ends only there and only when the flag is set; no iteration starts
\* while it is set; the program never clears it; and once processInput has
\* seen the escape key and set it, the iteration is finished, no further one
\* starts, teardown runs and main returns 0.
C6_CloseFlag ==
    /\ []C6_Safety
    /\ [][C6_Step]_vars
    /\ [](EscapeSeen => glfw.shouldClose)
    /\ (EscapeSeen ~> (pc = "done" /\ ret = <<0>> /\ gl.program.deletes = 1))

\* main has returned 0 after processInput set the flag in the second iteration
C6_Witness ==
    /\ pc = "done" /\ ret = <<0>> /\ frames = 2
    /\ glfw.escape /\ glfw.shouldClose
    /\ iterCalls = <<CallRec("glfwWindowShouldClose", {})>>

\* C7: each of the two shader stages is deleted exactly once, after the link
\* was attempted and before the first loop iteration, whatever the compile
\* and link outcomes; both are attached to the program before the link; and
\* no call after the deletion is handed a stage handle.
C7_StagesDeletedOnce ==
    /\ \A h \in ShaderHandles :
          /\ gl.shaders[h].deletes <= 1
          /\ gl.shaders[h].deletes = 1 => gl.program.links = 1
          /\ SetupDone => gl.shaders[h].deletes = 1
          /\ h \in lastCall.refs =>
                \/ gl.shaders[h].deletes = 0
                \/ lastCall.name = "glDeleteShader"
    /\ gl.program.links >= 1 =>
          /\ gl.program.attachedAtLink = ShaderHandles
          /\ Len(gl.program.attached) = 2

\* the first iteration starts with both stages deleted, after a failed
\* vertex compile and a successful link report
C7_Witness ==
    /\ pc = "L190" /\ frames = 1
    /\ \A h \in ShaderHandles : gl.shaders[h].deletes = 1
    /\ ~gl.shaders["vertexShader"].status
    /\ gl.program.status

C8_Safety ==
    /\ \A b \in VBOs : gl.vbos[b].uploads <= 1
    /\ SetupDone => \A b \in VBOs :
          gl.vbos[b].uploads = 1 /\ gl.vbos[b].size = SizeofVertices

C8_Step ==
    /\ pc \in LoopPCs =>
          /\ gl'.shaders = gl.shaders
          /\ gl'.program = gl.program
          /\ gl'.vaos = gl.vaos
          /\ gl'.vbos = gl.vbos
          /\ gl'.arrayBuffer = gl.arrayBuffer
          /\ gl'.infoLogReads = gl.infoLogReads
    /\ pc = "L211" => gl' = [gl EXCEPT !.viewport = gl'.viewport]

\* C8: each vertex buffer gets its data exactly once, before the loop; an
\* iteration of the loop, and the framebuffer-size callback, leave every
\* buffer, vertex array, shader and the program as they are: they change
\* only the current program, the bound vertex array, the clear colour, the
\* viewport (the callback: only the viewport) and the framebuffers.
C8_UploadedOnce == []C8_Safety /\ [][C8_Step]_vars

\* the callback has changed the viewport in the second iteration
C8_Witness ==
    /\ pc = "L187" /\ frames = 2
    /\ lastCall.name = "glViewport"
    /\ gl.viewport = <<1, 2>>

\* the last byte + 1 that a draw of vertices first..first+count-1 reads
\* through pointer p
ReadEnd(p, first, count) ==
    p.offset + (first + count - 1) * p.stride + p.components * SizeofFloat

\* C9: when a draw is issued, the bound vertex array has attribute 0
\* enabled and sourced from its own buffer (VAO_1 from VBO_1, VAO_2 from
\* VBO_2), with 3 floats per vertex, stride 3*sizeof(float), offset 0, and
\* the bytes of vertices 0..2 lie within the sizeof(vertices_i) bytes
\* uploaded to that buffer.
C9_DrawWithinBuffer ==
    (pc \in {"L201", "L206"} \/ lastCall.name = "glDrawArrays") =>
        /\ gl.vertexArray \in VAOs
        /\ LET p == gl.vaos[gl.vertexArray].pointer IN
              /\ AttribIndex \in gl.vaos[gl.vertexArray].enabled
              /\ p.buffer = OwnVBO(gl.vertexArray)
              /\ p.components = 3 /\ p.stride = 12 /\ p.offset = 0
              /\ gl.vbos[p.buffer].size = 36
              /\ gl.vbos[p.buffer].deletes = 0
              /\ ReadEnd(p, DrawFirst, DrawCount) <= gl.vbos[p.buffer].size

\* the second draw of an iteration has put both triangles in the back buffer
C9_Witness ==
    /\ pc = "L209" /\ lastCall.name = "glDrawArrays"
    /\ gl.vertexArray = "VAO_2"
    /\ gl.back.drawn = {"VAO_1", "VAO_2"}

\* C10: on every path by which main returns, what was created has been
\* released: glfwTerminate was called before the return (window failure,
\* loading failure, normal exit), and on normal exit the program, both
\* vertex arrays and both buffers were each deleted exactly once, and no
\* call was handed a handle after its deletion.
C10_ReleasedOnReturn ==
    pc = "done" =>
        /\ glfw.terminates = 1
        /\ ~glfw.open
        /\ ret = <<0>> =>
              /\ gl.program.deletes = 1
              /\ \A v \in VAOs : gl.vaos[v].deletes = 1
              /\ \A b \in VBOs : gl.vbos[b].deletes = 1
              /\ ~staleUse

\* what of C10 the code does: the window-failure return and the normal
\* return release everything
C10_ReleasedExceptLoadFailure ==
    (pc = "done" /\ glad # "fail") =>
        /\ glfw.terminates = 1
        /\ ~glfw.open
        /\ ret = <<0>> =>
              /\ gl.program.deletes = 1
              /\ \A v \in VAOs : gl.vaos[v].deletes = 1
              /\ \A b \in VBOs : gl.vbos[b].deletes = 1
              /\ ~staleUse

\* main has returned -1 with the window still open and GLFW not terminated
C10_LeakReached ==
    pc = "done" /\ ret = <<-1>> /\ glad = "fail" /\ glfw.open /\ glfw.terminates = 0

====
